---------------------------- MODULE Spec2Model ----------------------------
(***************************************************************************)
(* Model of the Pod network route reconciliation of colima                 *)
(* (util/routing/routing.go): the RouteManager, the two discovery          *)
(* functions GetVMIP and GetPodCIDR, and the two profile entry points.     *)
(*                                                                         *)
(* Go strings are sequences of one-character strings, so that the string   *)
(* functions the code uses (strings.Contains, strings.Index, ...) are      *)
(* computed on characters and not on opaque values.                        *)
(***************************************************************************)
EXTENDS Integers, Sequences, FiniteSets, TLC

(***************************************************************************)
(* Go string functions                                                     *)
(***************************************************************************)

\* s[from:] with a 0-based index, as Go slices
From(s, from) == SubSeq(s, from + 1, Len(s))

\* s[from:to] with 0-based indices, as Go slices
Slice(s, from, to) == SubSeq(s, from + 1, to)

MatchAt(s, sub, i) == SubSeq(s, i + 1, i + Len(sub)) = sub

\* strings.Contains
Contains(s, sub) == \E i \in 0..(Len(s) - Len(sub)) : MatchAt(s, sub, i)

\* strings.Index: the 0-based index of the first occurrence, or -1
Index(s, sub) ==
    IF Contains(s, sub)
    THEN CHOOSE i \in 0..(Len(s) - Len(sub)) :
             /\ MatchAt(s, sub, i)
             /\ \A j \in 0..(i - 1) : ~MatchAt(s, sub, j)
    ELSE -1

\* strings.HasPrefix
HasPrefix(s, prefix) == Len(s) >= Len(prefix) /\ MatchAt(s, prefix, 0)

\* strings.Split for a non-empty separator
RECURSIVE Split(_, _)
Split(s, sep) ==
    LET i == Index(s, sep)
    IN  IF i < 0 THEN <<s>>
        ELSE <<Slice(s, 0, i)>> \o Split(From(s, i + Len(sep)), sep)

\* the ASCII white space of unicode.IsSpace
IsSpace(c) == c \in {" ", "\n", "\t", "\r"}

\* strings.TrimLeft / TrimRight / Trim over a set of characters
RECURSIVE TrimLeftSet(_, _)
TrimLeftSet(s, cutset) ==
    IF s # <<>> /\ Head(s) \in cutset THEN TrimLeftSet(Tail(s), cutset) ELSE s

RECURSIVE TrimRightSet(_, _)
TrimRightSet(s, cutset) ==
    IF s # <<>> /\ s[Len(s)] \in cutset
    THEN TrimRightSet(SubSeq(s, 1, Len(s) - 1), cutset) ELSE s

Trim(s, cutset) == TrimRightSet(TrimLeftSet(s, cutset), cutset)

\* strings.TrimSpace
TrimSpace(s) == Trim(s, {" ", "\n", "\t", "\r"})

\* strings.Fields: the maximal runs of non-space characters
RECURSIVE Fields(_)
Fields(s) ==
    LET t == TrimLeftSet(s, {" ", "\n", "\t", "\r"})
    IN  IF t = <<>> THEN <<>>
        ELSE LET stops == {i \in 1..Len(t) : IsSpace(t[i])}
                 end   == IF stops = {} THEN Len(t) + 1
                          ELSE CHOOSE i \in stops : \A j \in stops : i <= j
             IN  <<SubSeq(t, 1, end - 1)>> \o Fields(SubSeq(t, end, Len(t)))

(***************************************************************************)
(* Go net.ParseIP and net.ParseCIDR                                        *)
(***************************************************************************)

DecDigits == <<"0", "1", "2", "3", "4", "5", "6", "7", "8", "9">>

IsDigit(c) == \E n \in 1..10 : DecDigits[n] = c

DigitVal(c) == (CHOOSE n \in 1..10 : DecDigits[n] = c) - 1

AllDigits(s) == \A i \in 1..Len(s) : IsDigit(s[i])

\* the value of a string of decimal digits
RECURSIVE DecVal(_)
DecVal(s) ==
    IF s = <<>> THEN 0
    ELSE 10 * DecVal(SubSeq(s, 1, Len(s) - 1)) + DigitVal(s[Len(s)])

IsHexDigit(c) ==
    \/ IsDigit(c)
    \/ c \in {"a", "b", "c", "d", "e", "f", "A", "B", "C", "D", "E", "F"}

\* one field of a dotted quad: 1 to 3 digits, no leading zero, at most 255
IPv4Field(f) ==
    /\ Len(f) \in 1..3
    /\ AllDigits(f)
    /\ (Len(f) > 1 => f[1] # "0")
    /\ DecVal(f) <= 255

\* the IPv4 branch of net.ParseIP: exactly four fields separated by dots
IsIPv4(s) ==
    LET f == Split(s, <<".">>)
    IN  Len(f) = 4 /\ \A i \in 1..4 : IPv4Field(f[i])

\* one group of an IPv6 literal: 1 to 4 hexadecimal digits
IPv6Group(g) == Len(g) \in 1..4 /\ \A i \in 1..Len(g) : IsHexDigit(g[i])

\* the groups of one side of an IPv6 literal ("" has none)
IPv6Groups(s) == IF s = <<>> THEN <<>> ELSE Split(s, <<":">>)

\* the IPv6 branch of net.ParseIP, without the embedded dotted quad form:
\* eight groups, or fewer around exactly one "::"
IsIPv6(s) ==
    LET i == Index(s, <<":", ":">>)
    IN  IF i < 0
        THEN LET g == Split(s, <<":">>)
             IN  Len(g) = 8 /\ \A k \in 1..8 : IPv6Group(g[k])
        ELSE LET l == IPv6Groups(Slice(s, 0, i))
                 r == IPv6Groups(From(s, i + 2))
             IN  /\ Len(l) + Len(r) <= 7
                 /\ \A k \in 1..Len(l) : IPv6Group(l[k])
                 /\ \A k \in 1..Len(r) : IPv6Group(r[k])

\* net.ParseIP(s) # nil
ParseIP(s) == IsIPv4(s) \/ IsIPv6(s)

\* net.ParseCIDR(s) returns no error: an address, "/", and a decimal prefix
\* length of at most 32 (IPv4) or 128 (IPv6)
ParseCIDR(s) ==
    LET i == Index(s, <<"/">>)
    IN  /\ i >= 0
        /\ LET addr == Slice(s, 0, i)
               mask == From(s, i + 1)
           IN  /\ ParseIP(addr)
               /\ mask # <<>>
               /\ AllDigits(mask)
               /\ DecVal(mask) <= (IF IsIPv4(addr) THEN 32 ELSE 128)

(***************************************************************************)
(* String constants of routing.go                                          *)
(***************************************************************************)

\* the empty Go string
Empty == <<>>

\* "127.0.0.1", the address GetVMIP refuses
Localhost ==
    <<"1", "2", "7", ".", "0", ".", "0", ".", "1">>

\* "10.42.0.0/16", the default k3s Pod CIDR
DefaultPodCIDR ==
    <<"1", "0", ".", "4", "2", ".", "0", ".", "0", "/", "1", "6">>

\* "cluster-cidr=", the key searched in the cluster-info dump
ClusterCIDRKey ==
    <<"c", "l", "u", "s", "t", "e", "r", "-", "c", "i", "d", "r", "=">>

\* "Network", the key searched in the flannel configmap
NetworkKey ==
    <<"N", "e", "t", "w", "o", "r", "k">>

(***************************************************************************)
(* Values of the environment                                               *)
(***************************************************************************)

\* "192.168.105.2" and "192.168.105.20": two VM addresses, the first a
\* prefix of the second
VMAddrA ==
    <<"1", "9", "2", ".", "1", "6", "8", ".", "1", "0", "5", ".", "2">>

VMAddrB ==
    <<"1", "9", "2", ".", "1", "6", "8", ".", "1", "0", "5", ".", "2", "0">>

\* "127.0.0.2": a loopback address other than 127.0.0.1
OtherLoopback ==
    <<"1", "2", "7", ".", "0", ".", "0", ".", "2">>

\* "colima": what the VM-control collaborator may answer that is no address
NotAnAddr ==
    <<"c", "o", "l", "i", "m", "a">>

\* "10.244.0.0/16": a Pod CIDR a cluster may be configured with
FlannelPodCIDR ==
    <<"1", "0", ".", "2", "4", "4", ".", "0", ".", "0", "/", "1", "6">>

\* the Pod CIDRs of the model: the keys of the host routing table
CIDRs == {DefaultPodCIDR, FlannelPodCIDR}

\* the next hops a route of the host routing table may have
Hops == {VMAddrA, VMAddrB}

\* no entry for a CIDR in the host routing table
NoRoute == <<>>

\* what limautil.IPAddress(profile) may return
LimaAddrs == {Empty, Localhost, NotAnAddr, VMAddrA, VMAddrB}

\* what limautil.IPAddress(profile) may return, the whole loopback network
\* 127.0.0.0/8 included
AnyLimaAddrs == LimaAddrs \cup {OtherLoopback}

\* an IPv4 address of the loopback network 127.0.0.0/8
IsLoopback(ip) == IsIPv4(ip) /\ HasPrefix(ip, <<"1", "2", "7", ".">>)

\* the profiles (config.CurrentProfile().ID of a running command)
Profiles == {"default", "dev"}

(***************************************************************************)
(* VM address discovery                                                    *)
(***************************************************************************)

\* GetVMIP on a host that is macOS or not, when limautil.IPAddress returns
\* ipAddress: the address and the error ("nil" for none)
GetVMIP(isMacOS, ipAddress) ==
    IF ~isMacOS
    THEN [ip |-> Empty, err |-> "PlatformUnsupported"]
    ELSE IF ipAddress = Empty \/ ipAddress = Localhost
    THEN [ip |-> Empty, err |-> "AddressUnavailable"]
    ELSE IF ~ParseIP(ipAddress)
    THEN [ip |-> Empty, err |-> "InvalidAddress"]
    ELSE [ip |-> ipAddress, err |-> "nil"]

(***************************************************************************)
(* Pod CIDR discovery: the two text scans of GetPodCIDR                    *)
(***************************************************************************)

\* a scan that found no valid CIDR
NoCIDR == <<>>

Quote == <<"\"">>

\* method 1 on one line: the value after "cluster-cidr=", quoted or not,
\* when it parses as a CIDR
ClusterCIDRInLine(line) ==
    IF ~Contains(line, ClusterCIDRKey) THEN NoCIDR
    ELSE LET start     == Index(line, ClusterCIDRKey) + Len(ClusterCIDRKey)
             remaining == From(line, start)
         IN  IF HasPrefix(remaining, Quote)
             THEN LET end == Index(From(remaining, 1), Quote)
                  IN  IF end > 0
                      THEN LET cidr == Slice(remaining, 1, end + 1)
                           IN  IF ParseCIDR(cidr) THEN cidr ELSE NoCIDR
                      ELSE NoCIDR
             ELSE LET fields == Fields(remaining)
                  IN  IF Len(fields) > 0
                      THEN LET cidr == fields[1]
                           IN  IF ParseCIDR(cidr) THEN cidr ELSE NoCIDR
                      ELSE NoCIDR

\* method 1 over the lines in order: the first line that gives a CIDR wins
RECURSIVE ClusterCIDRInLines(_)
ClusterCIDRInLines(lines) ==
    IF lines = <<>> THEN NoCIDR
    ELSE LET cidr == ClusterCIDRInLine(Head(lines))
         IN  IF cidr # NoCIDR THEN cidr ELSE ClusterCIDRInLines(Tail(lines))

\* method 1: the scan of the output of "kubectl cluster-info dump"
ClusterInfoCIDR(output) == ClusterCIDRInLines(Split(output, <<"\n">>))

\* method 2 on one line: a line with "Network" and ":", the text between
\* the first and the second colon, trimmed of spaces and quotes
FlannelCIDRInLine(line) ==
    IF Contains(line, NetworkKey) /\ Contains(line, <<":">>)
    THEN LET parts == Split(line, <<":">>)
         IN  IF Len(parts) > 1
             THEN LET cidr == Trim(TrimSpace(parts[2]), {"\"", "'"})
                  IN  IF ParseCIDR(cidr) THEN cidr ELSE NoCIDR
             ELSE NoCIDR
    ELSE NoCIDR

\* method 2 over the lines in order
RECURSIVE FlannelCIDRInLines(_)
FlannelCIDRInLines(lines) ==
    IF lines = <<>> THEN NoCIDR
    ELSE LET cidr == FlannelCIDRInLine(Head(lines))
         IN  IF cidr # NoCIDR THEN cidr ELSE FlannelCIDRInLines(Tail(lines))

\* method 2: the scan of the kube-flannel-cfg configmap
FlannelCIDR(output) == FlannelCIDRInLines(Split(output, <<"\n">>))

(***************************************************************************)
(* Outputs of the guest query channel                                      *)
(***************************************************************************)

\* a cluster-info dump without any cluster-cidr flag
DumpPlain ==
    <<"K", "u", "b", "e", "r", "n", "e", "t", "e", "s", " ", "c", "o", "n",
      "t", "r", "o", "l", " ", "p", "l", "a", "n", "e", " ", "i", "s", " ",
      "r", "u", "n", "n", "i", "n", "g", "\n">>

\* a cluster-info dump with the flag of the k3s server, unquoted
DumpUnquoted ==
    <<"a", "r", "g", "s", ":", "\n", "-", " ", "-", "-", "c", "l", "u",
      "s", "t", "e", "r", "-", "c", "i", "d", "r", "=", "1", "0", ".", "2",
      "4", "4", ".", "0", ".", "0", "/", "1", "6", " ", "-", "-", "v", "=",
      "2", "\n">>

\* a cluster-info dump with the flag quoted
DumpQuoted ==
    <<"a", "r", "g", "s", ":", " ", "-", "-", "c", "l", "u", "s", "t", "e",
      "r", "-", "c", "i", "d", "r", "=", "\"", "1", "0", ".", "2", "4",
      "4", ".", "0", ".", "0", "/", "1", "6", "\"", " ", "-", "-", "v",
      "=", "2", "\n">>

\* a cluster-info dump in JSON: the flag is one string of the args list
DumpJSON ==
    <<"\"", "a", "r", "g", "s", "\"", ":", " ", "[", "\n", "\"", "-", "-",
      "c", "l", "u", "s", "t", "e", "r", "-", "c", "i", "d", "r", "=", "1",
      "0", ".", "2", "4", "4", ".", "0", ".", "0", "/", "1", "6", "\"",
      ",", "\n", "\"", "-", "-", "v", "=", "2", "\"", "]", "\n">>

\* a cluster-info dump with the flag on two lines, with different values
DumpTwo ==
    <<"-", "-", "c", "l", "u", "s", "t", "e", "r", "-", "c", "i", "d", "r",
      "=", "1", "0", ".", "2", "4", "4", ".", "0", ".", "0", "/", "1", "6",
      "\n", "-", "-", "c", "l", "u", "s", "t", "e", "r", "-", "c", "i",
      "d", "r", "=", "1", "0", ".", "4", "2", ".", "0", ".", "0", "/", "1",
      "6", "\n">>

\* a flannel configmap without a network
ConfigmapPlain ==
    <<"k", "i", "n", "d", ":", " ", "C", "o", "n", "f", "i", "g", "M", "a",
      "p", "\n">>

\* a flannel configmap with an unquoted network
ConfigmapUnquoted ==
    <<"d", "a", "t", "a", ":", "\n", " ", " ", "N", "e", "t", "w", "o",
      "r", "k", ":", " ", "1", "0", ".", "2", "4", "4", ".", "0", ".", "0",
      "/", "1", "6", "\n">>

\* a flannel configmap with the net-conf.json of flannel
ConfigmapJSON ==
    <<"n", "e", "t", "-", "c", "o", "n", "f", ".", "j", "s", "o", "n", ":",
      " ", "|", "\n", " ", " ", "{", "\n", " ", " ", "\"", "N", "e", "t",
      "w", "o", "r", "k", "\"", ":", " ", "\"", "1", "0", ".", "2", "4",
      "4", ".", "0", ".", "0", "/", "1", "6", "\"", ",", "\n", " ", " ",
      "}", "\n">>

\* the cluster-info dumps of the model, each with the first valid
\* cluster-cidr value written in it (NoCIDR when it has none)
DumpCases ==
    {[out |-> DumpPlain,    cidr |-> NoCIDR],
     [out |-> DumpUnquoted, cidr |-> FlannelPodCIDR],
     [out |-> DumpQuoted,   cidr |-> FlannelPodCIDR],
     [out |-> DumpJSON,     cidr |-> FlannelPodCIDR],
     [out |-> DumpTwo,      cidr |-> FlannelPodCIDR]}

\* the flannel configmaps of the model, each with the value of its Network
\* key (NoCIDR when it has none)
ConfigmapCases ==
    {[out |-> ConfigmapPlain,    cidr |-> NoCIDR],
     [out |-> ConfigmapUnquoted, cidr |-> FlannelPodCIDR],
     [out |-> ConfigmapJSON,     cidr |-> FlannelPodCIDR]}

\* guest.RunOutput("kubectl", "cluster-info", "dump"): an error, or an output
DumpOutputs ==
    {[err |-> TRUE, out |-> Empty]} \cup
    {[err |-> FALSE, out |-> c.out] : c \in DumpCases}

\* guest.RunOutput("kubectl", "get", "configmap", ...): an error, or an output
ConfigmapOutputs ==
    {[err |-> TRUE, out |-> Empty]} \cup
    {[err |-> FALSE, out |-> c.out] : c \in ConfigmapCases}

(***************************************************************************)
(* The host routing table, as the route command shows and changes it       *)
(***************************************************************************)

\* the network address of a CIDR: the text before the "/"
NetOf(cidr) == Slice(cidr, 0, Index(cidr, <<"/">>))

\* the combined output of "route -n get <cidr>" for an entry with next hop gw
LookupOutput(cidr, gw) ==
    <<" ", " ", " ", "r", "o", "u", "t", "e", " ", "t", "o", ":", " ">> \o NetOf(cidr) \o <<"\n">> \o
    <<"d", "e", "s", "t", "i", "n", "a", "t", "i", "o", "n", ":", " ">> \o NetOf(cidr) \o <<"\n">> \o
    <<" ", " ", " ", " ", "g", "a", "t", "e", "w", "a", "y", ":", " ">> \o gw \o <<"\n">> \o
    <<" ", " ", "i", "n", "t", "e", "r", "f", "a", "c", "e", ":", " ", "b",
      "r", "i", "d", "g", "e", "1", "0", "0", "\n">>

(***************************************************************************)
(* State                                                                   *)
(***************************************************************************)

VARIABLES
    macOS,    \* util.MacOS() of the host
    routes,   \* the host routing table: CIDR -> next hop, or NoRoute
    pc,       \* per profile: where its call of this package stands
    cur,      \* per profile: the call in progress
    prev      \* a summary of the call that returned last

vars == <<macOS, routes, pc, cur, prev>>

\* the entry points of the package
ManagerOps == {"SetupPodRouting", "CleanupPodRouting"}

ProfileOps == {"SetupPodRoutingForProfile", "CleanupPodRoutingForProfile"}

SetupOps == {"SetupPodRouting", "SetupPodRoutingForProfile"}

CleanupOps == {"CleanupPodRouting", "CleanupPodRoutingForProfile"}

\* no call: the value of cur[p] between calls
NoCall ==
    [op       |-> "none",
     profile  |-> "none",
     k8s      |-> FALSE,       \* conf.Kubernetes.Enabled
     addr     |-> FALSE,       \* conf.Network.Address
     vmIP     |-> Empty,       \* rm.vmIP
     podCIDR  |-> Empty,       \* rm.podCIDR
     vmErr    |-> "none",      \* the error of GetVMIP
     cidrErr  |-> "none",      \* the error of GetPodCIDR
     cmds     |-> <<>>,        \* the external operations, in order
     exists   |-> FALSE,       \* the result of routeExists
     ret      |-> "pending",   \* the error returned: "nil" for success
     ctx      |-> "live",      \* the ctx argument: "live" or "cancelled"
     hungAt   |-> "none",      \* where a command of the call stopped answering
     routes0  |-> [c \in CIDRs |-> NoRoute]]   \* the table when called

\* the external operations of a call that are the command name
Issued(c, name) == SelectSeq(c.cmds, LAMBDA x : x.cmd = name)

\* some external operation of a call failed for a reason of the environment
\* (the route command could not run, sudo was refused)
Faulty(c) == \E i \in 1..Len(c.cmds) : c.cmds[i].fault

\* what is remembered of a call after it returned
Summary(c) ==
    [op      |-> c.op,
     vmIP    |-> c.vmIP,
     podCIDR |-> c.podCIDR,
     ret     |-> c.ret,
     adds    |-> Issued(c, "add"),
     fresh   |-> c.podCIDR # Empty /\ c.routes0[c.podCIDR] = NoRoute,
     faulty  |-> Faulty(c)]

\* one external operation of a call
Cmd(name, cidr, gw, out, ok, fault) ==
    [cmd |-> name, cidr |-> cidr, gw |-> gw, out |-> out, ok |-> ok,
     fault |-> fault]

Init ==
    /\ macOS \in BOOLEAN
    /\ routes \in [CIDRs -> Hops \cup {NoRoute}]
    /\ pc = [p \in Profiles |-> "idle"]
    /\ cur = [p \in Profiles |-> NoCall]
    /\ prev = Summary(NoCall)

AllIdle == \A p \in Profiles : pc[p] = "idle"

\* the call of p is about to return err
Ret(c, err) == [c EXCEPT !.ret = err]

(***************************************************************************)
(* The entry points                                                        *)
(***************************************************************************)

\* rm := NewRouteManager(vmIP, podCIDR, profile); rm.SetupPodRouting(ctx)
\* or rm.CleanupPodRouting(ctx), called on a manager of any two strings
CallManager(p) ==
    /\ pc[p] = "idle"
    /\ \E op \in ManagerOps, ip \in Hops \cup {Empty}, cidr \in CIDRs \cup {Empty} :
          cur' = [cur EXCEPT ![p] =
                     [NoCall EXCEPT !.op = op, !.profile = p, !.vmIP = ip,
                                    !.podCIDR = cidr, !.routes0 = routes]]
    /\ pc' = [pc EXCEPT ![p] = "manager"]
    /\ UNCHANGED <<macOS, routes, prev>>

\* SetupGated that forgets the check of conf.Network.Address
SetupGated_NoAddressCheck(k8s, addr) == ~k8s

\* the early returns of SetupPodRoutingForProfile on the configuration
SetupGated(k8s, addr) == ~k8s \/ ~addr

\* the early return of CleanupPodRoutingForProfile on the configuration
CleanupGated(k8s, addr) == ~k8s

\* SetupPodRoutingForProfile(ctx, conf) up to the call of GetVMIP
SetupPodRoutingForProfileWith(p, k8s, addr) ==
    /\ pc[p] = "idle"
    /\    LET c == [NoCall EXCEPT !.op = "SetupPodRoutingForProfile",
                                  !.profile = p, !.k8s = k8s, !.addr = addr,
                                  !.routes0 = routes]
          IN  IF SetupGated(k8s, addr)
              THEN /\ cur' = [cur EXCEPT ![p] = Ret(c, "nil")]
                   /\ pc' = [pc EXCEPT ![p] = "return"]
              ELSE /\ cur' = [cur EXCEPT ![p] = c]
                   /\ pc' = [pc EXCEPT ![p] = "GetVMIP"]
    /\ UNCHANGED <<macOS, routes, prev>>

\* CleanupPodRoutingForProfile(ctx, conf) up to the call of GetPodCIDR
CleanupPodRoutingForProfileWith(p, k8s, addr) ==
    /\ pc[p] = "idle"
    /\    LET c == [NoCall EXCEPT !.op = "CleanupPodRoutingForProfile",
                                  !.profile = p, !.k8s = k8s, !.addr = addr,
                                  !.routes0 = routes]
          IN  IF CleanupGated(k8s, addr)
              THEN /\ cur' = [cur EXCEPT ![p] = Ret(c, "nil")]
                   /\ pc' = [pc EXCEPT ![p] = "return"]
              ELSE /\ cur' = [cur EXCEPT ![p] = c]
                   /\ pc' = [pc EXCEPT ![p] = "GetPodCIDR"]
    /\ UNCHANGED <<macOS, routes, prev>>

(***************************************************************************)
(* Discovery                                                               *)
(***************************************************************************)

\* vmIP, err := GetVMIP(ctx, profile) in SetupPodRoutingForProfile: off
\* macOS the collaborator is not asked
GetVMIPStepWith(p, ipAddress) ==
    /\ pc[p] = "GetVMIP"
    /\    LET r == GetVMIP(macOS, ipAddress)
              q == IF macOS
                   THEN <<Cmd("IPAddress", Empty, ipAddress, Empty, TRUE, FALSE)>>
                   ELSE <<>>
              c == [cur[p] EXCEPT !.vmErr = r.err, !.vmIP = r.ip,
                                  !.cmds = @ \o q]
          IN  IF r.err # "nil"
              THEN /\ cur' = [cur EXCEPT ![p] = Ret(c, "nil")]
                   /\ pc' = [pc EXCEPT ![p] = "return"]
              ELSE /\ cur' = [cur EXCEPT ![p] = c]
                   /\ pc' = [pc EXCEPT ![p] = "GetPodCIDR"]
    /\ UNCHANGED <<macOS, routes, prev>>

\* AfterGetPodCIDR with setup going on with the default CIDR as cleanup does
AfterGetPodCIDR_SetupGoesOn(c, podCIDR, err) ==
    LET d == [c EXCEPT !.cidrErr = err, !.podCIDR = podCIDR]
    IN  IF err = "nil"
        THEN [call |-> d, to |-> "manager"]
        ELSE [call |-> [d EXCEPT !.podCIDR = DefaultPodCIDR], to |-> "manager"]

\* AfterGetPodCIDR with cleanup giving up on an error as setup does
AfterGetPodCIDR_CleanupAborts(c, podCIDR, err) ==
    LET d == [c EXCEPT !.cidrErr = err, !.podCIDR = podCIDR]
    IN  IF err = "nil"
        THEN [call |-> d, to |-> "manager"]
        ELSE [call |-> Ret(d, "nil"), to |-> "return"]

\* the caller of GetPodCIDR takes podCIDR, err: setup gives up on an error,
\* cleanup goes on with the default CIDR; both then build the manager
AfterGetPodCIDR(c, podCIDR, err) ==
    LET d == [c EXCEPT !.cidrErr = err, !.podCIDR = podCIDR]
    IN  IF err = "nil"
        THEN [call |-> d, to |-> "manager"]
        ELSE IF c.op = "SetupPodRoutingForProfile"
        THEN [call |-> Ret(d, "nil"), to |-> "return"]
        ELSE [call |-> [d EXCEPT !.podCIDR = DefaultPodCIDR], to |-> "manager"]

\* GetPodCIDR: guest.Running(ctx)
GetPodCIDRRunningWith(p, running) ==
    /\ pc[p] = "GetPodCIDR"
    /\    LET c == [cur[p] EXCEPT
                       !.cmds = Append(@, Cmd("Running", Empty, Empty, Empty,
                                              running, FALSE))]
              n == AfterGetPodCIDR(c, Empty, "VMNotRunning")
          IN  IF running
              THEN /\ cur' = [cur EXCEPT ![p] = c]
                   /\ pc' = [pc EXCEPT ![p] = "dump"]
              ELSE /\ cur' = [cur EXCEPT ![p] = n.call]
                   /\ pc' = [pc EXCEPT ![p] = n.to]
    /\ UNCHANGED <<macOS, routes, prev>>

\* GetPodCIDR, method 1: the cluster-info dump and its scan
GetPodCIDRDumpWith(p, o) ==
    /\ pc[p] = "dump"
    /\    LET c == [cur[p] EXCEPT
                       !.cmds = Append(@, Cmd("dump", Empty, Empty, o.out,
                                              ~o.err, FALSE))]
              cidr == IF o.err THEN NoCIDR ELSE ClusterInfoCIDR(o.out)
              n == AfterGetPodCIDR(c, cidr, "nil")
          IN  IF cidr # NoCIDR
              THEN /\ cur' = [cur EXCEPT ![p] = n.call]
                   /\ pc' = [pc EXCEPT ![p] = n.to]
              ELSE /\ cur' = [cur EXCEPT ![p] = c]
                   /\ pc' = [pc EXCEPT ![p] = "configmap"]
    /\ UNCHANGED <<macOS, routes, prev>>

\* Fallback that returns what the scans found, even nothing
Fallback_None(cidr) == cidr

\* Fallback with another constant than the default k3s Pod CIDR
Fallback_Other(cidr) == IF cidr # NoCIDR THEN cidr ELSE FlannelPodCIDR

\* the end of GetPodCIDR: the CIDR of method 2, or else the default
Fallback(cidr) == IF cidr # NoCIDR THEN cidr ELSE DefaultPodCIDR

\* GetPodCIDR, method 2 and the fallback to the default CIDR
GetPodCIDRConfigmapWith(p, o) ==
    /\ pc[p] = "configmap"
    /\    LET c == [cur[p] EXCEPT
                       !.cmds = Append(@, Cmd("configmap", Empty, Empty, o.out,
                                              ~o.err, FALSE))]
              cidr == IF o.err THEN NoCIDR ELSE FlannelCIDR(o.out)
              n == AfterGetPodCIDR(c, Fallback(cidr), "nil")
          IN  /\ cur' = [cur EXCEPT ![p] = n.call]
              /\ pc' = [pc EXCEPT ![p] = n.to]
    /\ UNCHANGED <<macOS, routes, prev>>

(***************************************************************************)
(* The route manager                                                       *)
(***************************************************************************)

\* SetupSkips without the check of rm.vmIP
SetupSkips_NoVMIPCheck(isMacOS, vmIP, podCIDR) ==
    ~isMacOS \/ podCIDR = Empty

\* the early returns of SetupPodRouting: not macOS, or an empty field
SetupSkips(isMacOS, vmIP, podCIDR) ==
    ~isMacOS \/ vmIP = Empty \/ podCIDR = Empty

\* the early returns of CleanupPodRouting: not macOS, or an empty CIDR
CleanupSkips(isMacOS, vmIP, podCIDR) ==
    ~isMacOS \/ podCIDR = Empty

\* ManagerEntry that goes to the route command without the lookup
ManagerEntry_NoLookup(p) ==
    /\ pc[p] = "manager"
    /\ LET c == cur[p]
           skips == IF c.op \in SetupOps
                    THEN SetupSkips(macOS, c.vmIP, c.podCIDR)
                    ELSE CleanupSkips(macOS, c.vmIP, c.podCIDR)
       IN  IF skips
           THEN /\ cur' = [cur EXCEPT ![p] = Ret(c, "nil")]
                /\ pc' = [pc EXCEPT ![p] = "return"]
           ELSE /\ pc' = [pc EXCEPT ![p] =
                              IF c.op \in SetupOps THEN "add" ELSE "delete"]
                /\ UNCHANGED cur
    /\ UNCHANGED <<macOS, routes, prev>>

\* SetupPodRouting or CleanupPodRouting up to the call of routeExists
ManagerEntry(p) ==
    /\ pc[p] = "manager"
    /\ LET c == cur[p]
           skips == IF c.op \in SetupOps
                    THEN SetupSkips(macOS, c.vmIP, c.podCIDR)
                    ELSE CleanupSkips(macOS, c.vmIP, c.podCIDR)
       IN  IF skips
           THEN /\ cur' = [cur EXCEPT ![p] = Ret(c, "nil")]
                /\ pc' = [pc EXCEPT ![p] = "return"]
           ELSE /\ pc' = [pc EXCEPT ![p] = "routeExists"]
                /\ UNCHANGED cur
    /\ UNCHANGED <<macOS, routes, prev>>

\* routeExists that never finds the route
routeExists_Never(ok, output, vmIP) == FALSE

\* the result of routeExists when the lookup command succeeded or not (ok)
\* with the combined output: the output contains rm.vmIP
routeExists(ok, output, vmIP) == ok /\ Contains(output, vmIP)

\* rm.routeExists() in SetupPodRouting and CleanupPodRouting: "route -n get"
\* fails when the table has no entry for the CIDR or when it cannot run
RouteExistsStepWith(p, runs) ==
    /\ pc[p] = "routeExists"
    /\    LET c      == cur[p]
              gw     == routes[c.podCIDR]
              ok     == runs /\ gw # NoRoute
              out    == IF ok THEN LookupOutput(c.podCIDR, gw) ELSE Empty
              exists == routeExists(ok, out, c.vmIP)
              d      == [c EXCEPT !.exists = exists,
                                  !.cmds = Append(@, Cmd("lookup", c.podCIDR,
                                                  gw, out, ok, ~runs))]
          IN  IF c.op \in SetupOps
              THEN IF exists
                   THEN /\ cur' = [cur EXCEPT ![p] = Ret(d, "nil")]
                        /\ pc' = [pc EXCEPT ![p] = "return"]
                   ELSE /\ cur' = [cur EXCEPT ![p] = d]
                        /\ pc' = [pc EXCEPT ![p] = "add"]
              ELSE IF ~exists
                   THEN /\ cur' = [cur EXCEPT ![p] = Ret(d, "nil")]
                        /\ pc' = [pc EXCEPT ![p] = "return"]
                   ELSE /\ cur' = [cur EXCEPT ![p] = d]
                        /\ pc' = [pc EXCEPT ![p] = "delete"]
    /\ UNCHANGED <<macOS, routes, prev>>

\* SetupResult with the failure of the add command swallowed
SetupResult_Swallowed(ok) == "nil"

\* what SetupPodRouting returns after the add command
SetupResult(ok) == IF ok THEN "nil" ELSE "RouteInstallFailed"

\* CleanupResult with the failure of the delete command returned
CleanupResult_Propagated(ok) == IF ok THEN "nil" ELSE "RouteDeleteFailed"

\* what CleanupPodRouting returns after the delete command
CleanupResult(ok) == "nil"

\* "sudo route add <podCIDR> <vmIP>": it adds the entry and exits zero when
\* sudo is permitted and the table has no entry for the CIDR; otherwise it
\* exits non-zero and the table is as before
AddRouteWith(p, permitted) ==
    /\ pc[p] = "add"
    /\    LET c  == cur[p]
              ok == permitted /\ routes[c.podCIDR] = NoRoute
              d  == [c EXCEPT !.cmds = Append(@, Cmd("add", c.podCIDR, c.vmIP,
                                                     Empty, ok, ~permitted))]
          IN  /\ routes' = IF ok THEN [routes EXCEPT ![c.podCIDR] = c.vmIP]
                           ELSE routes
              /\ cur' = [cur EXCEPT ![p] = Ret(d, SetupResult(ok))]
    /\ pc' = [pc EXCEPT ![p] = "return"]
    /\ UNCHANGED <<macOS, prev>>

\* "sudo route delete <podCIDR>": it removes the entry and exits zero when
\* sudo is permitted and the table has an entry for the CIDR; otherwise it
\* exits non-zero and the table is as before
DeleteRouteWith(p, permitted) ==
    /\ pc[p] = "delete"
    /\    LET c  == cur[p]
              ok == permitted /\ routes[c.podCIDR] # NoRoute
              d  == [c EXCEPT !.cmds = Append(@, Cmd("delete", c.podCIDR,
                                               Empty, Empty, ok, ~permitted))]
          IN  /\ routes' = IF ok THEN [routes EXCEPT ![c.podCIDR] = NoRoute]
                           ELSE routes
              /\ cur' = [cur EXCEPT ![p] = Ret(d, CleanupResult(ok))]
    /\ pc' = [pc EXCEPT ![p] = "return"]
    /\ UNCHANGED <<macOS, prev>>

(***************************************************************************)
(* Contexts: which external operations are started with the ctx of the    *)
(* call, and what cancelling ctx does to a call                            *)
(***************************************************************************)

\* the external operation a call waits for at each of its positions
CommandAt(at) ==
    CASE at = "GetPodCIDR"  -> "Running"
      [] at = "dump"        -> "dump"
      [] at = "configmap"   -> "configmap"
      [] at = "routeExists" -> "lookup"
      [] at = "add"         -> "add"
      [] at = "delete"      -> "delete"
      [] OTHER              -> "none"

\* the positions where a call waits for a command of the host or the guest
HangPCs == {"GetPodCIDR", "dump", "configmap", "routeExists", "add", "delete"}

\* the operation is started with the ctx of the call, so that cancelling
\* ctx ends it: exec.CommandContext(ctx, ...) and guest.Running(ctx) are,
\* exec.Command(...) and guest.RunOutput(...) are not
TakesCtx(cmd) ==
    CASE cmd = "Running"   -> TRUE
      [] cmd = "dump"      -> FALSE
      [] cmd = "configmap" -> FALSE
      [] cmd = "lookup"    -> FALSE
      [] cmd = "add"       -> TRUE
      [] cmd = "delete"    -> TRUE
      [] OTHER             -> FALSE

\* the command the call waits for has stopped answering
Hung(p) == cur[p].hungAt = pc[p]

\* the orchestrator calls under any configuration
SetupPodRoutingForProfile(p) ==
    \E k8s \in BOOLEAN, addr \in BOOLEAN :
        SetupPodRoutingForProfileWith(p, k8s, addr)

CleanupPodRoutingForProfile(p) ==
    \E k8s \in BOOLEAN, addr \in BOOLEAN :
        CleanupPodRoutingForProfileWith(p, k8s, addr)

\* the steps of a call whose external operation answers by itself
GetVMIPStep(p) == \E ipAddress \in LimaAddrs : GetVMIPStepWith(p, ipAddress)

GetPodCIDRRunning(p) ==
    ~Hung(p) /\ \E running \in BOOLEAN : GetPodCIDRRunningWith(p, running)

GetPodCIDRDump(p) ==
    ~Hung(p) /\ \E o \in DumpOutputs : GetPodCIDRDumpWith(p, o)

GetPodCIDRConfigmap(p) ==
    ~Hung(p) /\ \E o \in ConfigmapOutputs : GetPodCIDRConfigmapWith(p, o)

RouteExistsStep(p) ==
    ~Hung(p) /\ \E runs \in BOOLEAN : RouteExistsStepWith(p, runs)

AddRoute(p) == ~Hung(p) /\ \E permitted \in BOOLEAN : AddRouteWith(p, permitted)

DeleteRoute(p) ==
    ~Hung(p) /\ \E permitted \in BOOLEAN : DeleteRouteWith(p, permitted)

\* the caller cancels the ctx it passed to the call
Cancel(p) ==
    /\ pc[p] # "idle"
    /\ cur[p].ctx = "live"
    /\ cur' = [cur EXCEPT ![p].ctx = "cancelled"]
    /\ UNCHANGED <<macOS, routes, pc, prev>>

\* the command the call waits for stops answering
Hang(p) ==
    /\ pc[p] \in HangPCs
    /\ cur[p].hungAt = "none"
    /\ cur' = [cur EXCEPT ![p].hungAt = pc[p]]
    /\ UNCHANGED <<macOS, routes, pc, prev>>

\* a command started with a cancelled ctx is killed: it fails, and the
\* call goes on as the code does after the failure of that command
Kill(p) ==
    /\ Hung(p)
    /\ cur[p].ctx = "cancelled"
    /\ TakesCtx(CommandAt(pc[p]))
    /\ \/ GetPodCIDRRunningWith(p, FALSE)
       \/ AddRouteWith(p, FALSE)
       \/ DeleteRouteWith(p, FALSE)

\* the call returns to its caller
Return(p) ==
    /\ pc[p] = "return"
    /\ prev' = Summary(cur[p])
    /\ cur' = [cur EXCEPT ![p] = NoCall]
    /\ pc' = [pc EXCEPT ![p] = "idle"]
    /\ UNCHANGED <<macOS, routes>>

(***************************************************************************)
(* Specification: the calls of the package made one after the other, as    *)
(* the start and stop sequences of the application make them               *)
(***************************************************************************)

\* the profile of the calls made one after the other
MainProfile == "default"

Next ==
    \E p \in {MainProfile} :
        \/ AllIdle /\ CallManager(p)
        \/ AllIdle /\ SetupPodRoutingForProfile(p)
        \/ AllIdle /\ CleanupPodRoutingForProfile(p)
        \/ GetVMIPStep(p)
        \/ GetPodCIDRRunning(p)
        \/ GetPodCIDRDump(p)
        \/ GetPodCIDRConfigmap(p)
        \/ ManagerEntry(p)
        \/ RouteExistsStep(p)
        \/ AddRoute(p)
        \/ DeleteRoute(p)
        \/ Return(p)

Spec == Init /\ [][Next]_vars

\* the calls of the application under a caller that may cancel ctx and
\* commands that may stop answering
NextCancel ==
    \E p \in {MainProfile} :
        \/ AllIdle /\ SetupPodRoutingForProfile(p)
        \/ AllIdle /\ CleanupPodRoutingForProfile(p)
        \/ GetVMIPStep(p)
        \/ GetPodCIDRRunning(p)
        \/ GetPodCIDRDump(p)
        \/ GetPodCIDRConfigmap(p)
        \/ ManagerEntry(p)
        \/ RouteExistsStep(p)
        \/ AddRoute(p)
        \/ DeleteRoute(p)
        \/ Return(p)
        \/ Cancel(p)
        \/ Hang(p)
        \/ Kill(p)

SpecCancel == Init /\ [][NextCancel]_vars

\* the VM address of each profile: two instances have distinct addresses
VMAddrOf(p) == IF p = MainProfile THEN VMAddrA ELSE VMAddrB

\* the guest answers of the concurrent calls: no CIDR is found, so that
\* both profiles resolve the default CIDR
ConcDumps == {[err |-> TRUE, out |-> Empty]}

ConcConfigmaps == {[err |-> TRUE, out |-> Empty]}

\* a macOS host on which no instance has a pod route yet
InitConc ==
    /\ macOS = TRUE
    /\ routes = [c \in CIDRs |-> NoRoute]
    /\ pc = [p \in Profiles |-> "idle"]
    /\ cur = [p \in Profiles |-> NoCall]
    /\ prev = Summary(NoCall)

\* the calls of the application for two profiles at the same time, each
\* step of one call interleaved with the steps of the other; Kubernetes and
\* the network address are enabled, the VMs run, the route command always
\* runs and sudo is always permitted
NextConc ==
    \E p \in Profiles :
        \/ SetupPodRoutingForProfileWith(p, TRUE, TRUE)
        \/ CleanupPodRoutingForProfileWith(p, TRUE, TRUE)
        \/ GetVMIPStepWith(p, VMAddrOf(p))
        \/ GetPodCIDRRunningWith(p, TRUE)
        \/ \E o \in ConcDumps : GetPodCIDRDumpWith(p, o)
        \/ \E o \in ConcConfigmaps : GetPodCIDRConfigmapWith(p, o)
        \/ ManagerEntry(p)
        \/ RouteExistsStepWith(p, TRUE)
        \/ AddRouteWith(p, TRUE)
        \/ DeleteRouteWith(p, TRUE)
        \/ Return(p)

SpecConc == InitConc /\ [][NextConc]_vars

\* the setups of the application, one after the other, whatever address the
\* VM-control collaborator answers
NextVMIP ==
    \E p \in {MainProfile} :
        \/ AllIdle /\ SetupPodRoutingForProfile(p)
        \/ \E ipAddress \in AnyLimaAddrs : GetVMIPStepWith(p, ipAddress)
        \/ GetPodCIDRRunning(p)
        \/ \E o \in ConcDumps : GetPodCIDRDumpWith(p, o)
        \/ GetPodCIDRConfigmap(p)
        \/ ManagerEntry(p)
        \/ RouteExistsStep(p)
        \/ AddRoute(p)
        \/ Return(p)

SpecVMIP == Init /\ [][NextVMIP]_vars

(***************************************************************************)
(* Types                                                                   *)
(***************************************************************************)

TypeOK ==
    /\ macOS \in BOOLEAN
    /\ routes \in [CIDRs -> Hops \cup {NoRoute, OtherLoopback}]
    /\ \A p \in Profiles :
          /\ pc[p] \in {"idle", "GetVMIP", "GetPodCIDR", "dump", "configmap",
                        "manager", "routeExists", "add", "delete", "return"}
          /\ cur[p].podCIDR \in CIDRs \cup {Empty}
          /\ cur[p].vmIP \in Hops \cup {Empty, OtherLoopback}
          /\ (pc[p] = "idle") = (cur[p] = NoCall)
          /\ (pc[p] = "return") = (cur[p].ret # "pending")

(***************************************************************************)
(* Properties                                                              *)
(***************************************************************************)

\* the call of p has come to its return
Returning(p) == pc[p] = "return"

\* the call c reached the route commands with both manager fields set
Managed(c) == c.vmIP # Empty /\ c.podCIDR # Empty

\* the call c issued no route lookup, add or delete
NoRouteCmd(c) ==
    /\ Issued(c, "lookup") = <<>>
    /\ Issued(c, "add") = <<>>
    /\ Issued(c, "delete") = <<>>

\* C1: setup is idempotent. On macOS, when a setup call that started with no
\* entry for the CIDR is followed by a setup call with the same VM address
\* and CIDR, and no command fails for a reason of the environment, the first
\* call issued exactly one add, of (CIDR, VM address), and the second found
\* the route, issued no add and no delete, and returns success.
C1_Pair(p) ==
    /\ Returning(p)
    /\ macOS
    /\ cur[p].op \in SetupOps
    /\ prev.op = cur[p].op
    /\ Managed(cur[p])
    /\ prev.vmIP = cur[p].vmIP
    /\ prev.podCIDR = cur[p].podCIDR
    /\ prev.fresh
    /\ ~prev.faulty
    /\ ~Faulty(cur[p])

C1_SetupIdempotent ==
    \A p \in Profiles :
        C1_Pair(p) =>
            /\ prev.adds = <<Cmd("add", cur[p].podCIDR, cur[p].vmIP, Empty,
                                 TRUE, FALSE)>>
            /\ prev.ret = "nil"
            /\ Len(Issued(cur[p], "lookup")) = 1
            /\ cur[p].exists
            /\ Issued(cur[p], "add") = <<>>
            /\ Issued(cur[p], "delete") = <<>>
            /\ cur[p].ret = "nil"

C1_Witness ==
    \E p \in Profiles :
        /\ C1_Pair(p)
        /\ cur[p].op = "SetupPodRoutingForProfile"
        /\ Len(prev.adds) = 1
        /\ cur[p].exists

\* C2: after a successful SetupPodRouting on macOS with a non-empty VM
\* address and CIDR, the table has an entry for the CIDR whose next hop is
\* the VM address, whatever the table held before.
C2_PostSetup ==
    \A p \in Profiles :
        ( /\ Returning(p)
          /\ macOS
          /\ cur[p].op = "SetupPodRouting"
          /\ Managed(cur[p])
          /\ cur[p].ret = "nil" )
        => routes[cur[p].podCIDR] = cur[p].vmIP

\* C3: routeExists returns true only when the lookup succeeds and the next
\* hop of the route is exactly the VM address of the manager.
C3_ExactMatch ==
    \A p \in Profiles :
        \A i \in 1..Len(cur[p].cmds) :
            ( /\ cur[p].cmds[i].cmd = "lookup"
              /\ cur[p].vmIP # Empty
              /\ cur[p].exists )
            => /\ cur[p].cmds[i].ok
               /\ cur[p].cmds[i].gw = cur[p].vmIP

\* C4: SetupPodRoutingForProfile reconciles a stale entry. When the table
\* holds an entry for the CIDR with another next hop than the discovered VM
\* address (here one that does not even contain the VM address) and no
\* command fails for a reason of the environment, the call leaves an entry
\* for the CIDR whose next hop is the VM address.
C4_Reconciles ==
    \A p \in Profiles :
        ( /\ Returning(p)
          /\ macOS
          /\ cur[p].op = "SetupPodRoutingForProfile"
          /\ Managed(cur[p])
          /\ cur[p].routes0[cur[p].podCIDR] \notin {NoRoute, cur[p].vmIP}
          /\ ~Contains(cur[p].routes0[cur[p].podCIDR], cur[p].vmIP)
          /\ ~Faulty(cur[p]) )
        => routes[cur[p].podCIDR] = cur[p].vmIP

\* the call c did nothing to the routing table: no lookup, no add, no
\* delete, the table as it was, and success
NoOp(p) ==
    /\ NoRouteCmd(cur[p])
    /\ routes = cur[p].routes0
    /\ cur[p].ret = "nil"

\* C5 as claimed: SetupPodRouting and CleanupPodRouting are both no-ops when
\* the host is not macOS or when the VM address or the CIDR is empty.
C5_BothNoOp ==
    \A p \in Profiles :
        ( /\ Returning(p)
          /\ cur[p].op \in ManagerOps
          /\ (~macOS \/ cur[p].vmIP = Empty \/ cur[p].podCIDR = Empty) )
        => NoOp(p)

\* C5 as amended: SetupPodRouting is a no-op when the host is not macOS or
\* when the VM address or the CIDR is empty; CleanupPodRouting is a no-op
\* when the host is not macOS or when the CIDR is empty.
C5_NoOpWhenSkipped ==
    \A p \in Profiles :
        Returning(p) =>
            /\ ( /\ cur[p].op = "SetupPodRouting"
                 /\ (~macOS \/ cur[p].vmIP = Empty \/ cur[p].podCIDR = Empty) )
               => NoOp(p)
            /\ ( /\ cur[p].op = "CleanupPodRouting"
                 /\ (~macOS \/ cur[p].podCIDR = Empty) )
               => NoOp(p)

C5_Witness ==
    \E p \in Profiles :
        /\ Returning(p)
        /\ macOS
        /\ cur[p].op = "SetupPodRouting"
        /\ cur[p].vmIP = Empty
        /\ cur[p].podCIDR # Empty
        /\ routes[cur[p].podCIDR] # NoRoute
        /\ NoOp(p)

\* C6: cleanup is idempotent. CleanupPodRoutingForProfile, called after the
\* setup of the profile discovered its VM address, when the table holds no
\* entry for the CIDR that points at that address (and no command fails for
\* a reason of the environment), issues no delete, leaves the table as it
\* was and returns success.
C6_CleanupIdempotent ==
    \A p \in Profiles :
        ( /\ Returning(p)
          /\ macOS
          /\ cur[p].op = "CleanupPodRoutingForProfile"
          /\ cur[p].podCIDR # Empty
          /\ ~Faulty(cur[p])
          /\ prev.op = "SetupPodRoutingForProfile"
          /\ prev.vmIP # Empty
          /\ cur[p].routes0[cur[p].podCIDR] # prev.vmIP )
        => /\ Issued(cur[p], "delete") = <<>>
           /\ routes = cur[p].routes0
           /\ cur[p].ret = "nil"

\* the call summarised in prev installed the route of its CIDR
Installed(c) == \E i \in 1..Len(c.adds) : c.adds[i].ok

\* C7: the lifecycle round trip. After SetupPodRoutingForProfile installed a
\* route for the CIDR it discovered, the following
\* CleanupPodRoutingForProfile of the enabled feature, with no command
\* failing for a reason of the environment, leaves no entry for that CIDR,
\* whether the VM is running or not: here, when it is no longer running.
C7_RoundTrip ==
    \A p \in Profiles :
        ( /\ Returning(p)
          /\ macOS
          /\ cur[p].op = "CleanupPodRoutingForProfile"
          /\ cur[p].k8s
          /\ ~Faulty(cur[p])
          /\ prev.op = "SetupPodRoutingForProfile"
          /\ ~prev.faulty
          /\ Installed(prev)
          /\ \E i \in 1..Len(cur[p].cmds) :
                cur[p].cmds[i].cmd = "Running" /\ ~cur[p].cmds[i].ok )
        => routes[prev.podCIDR] = NoRoute

\* C8: cleanup never reports failure. CleanupPodRouting and
\* CleanupPodRoutingForProfile return success on every path, also when the
\* delete command fails and when the CIDR discovery fails.
C8_CleanupNeverFails ==
    \A p \in Profiles :
        (Returning(p) /\ cur[p].op \in CleanupOps) => cur[p].ret = "nil"

C8_Witness ==
    \E p \in Profiles :
        /\ Returning(p)
        /\ cur[p].op = "CleanupPodRoutingForProfile"
        /\ cur[p].cidrErr = "VMNotRunning"
        /\ \E i \in 1..Len(cur[p].cmds) :
              cur[p].cmds[i].cmd = "delete" /\ ~cur[p].cmds[i].ok
        /\ cur[p].ret = "nil"

\* the call c started the CIDR discovery
DiscoveredCIDR(c) ==
    \E i \in 1..Len(c.cmds) : c.cmds[i].cmd \in {"Running", "dump", "configmap"}

\* C9: discovery failures are absorbed at setup. When GetVMIP or GetPodCIDR
\* fails, SetupPodRoutingForProfile returns success with no route lookup, add
\* or delete, and GetPodCIDR is not started after GetVMIP failed.
C9_DiscoveryAbsorbed ==
    \A p \in Profiles :
        ( /\ Returning(p)
          /\ cur[p].op = "SetupPodRoutingForProfile" )
        => /\ cur[p].vmErr \notin {"none", "nil"}
              => NoOp(p) /\ ~DiscoveredCIDR(cur[p]) /\ cur[p].cidrErr = "none"
           /\ cur[p].cidrErr \notin {"none", "nil"} => NoOp(p)

C9_Witness ==
    \E p \in Profiles :
        /\ Returning(p)
        /\ cur[p].op = "SetupPodRoutingForProfile"
        /\ cur[p].vmErr = "nil"
        /\ cur[p].cidrErr = "VMNotRunning"
        /\ routes[DefaultPodCIDR] = NoRoute
        /\ NoOp(p)

\* C10: the failed install is the only error of SetupPodRoutingForProfile.
\* It returns an error exactly when it issued the add command and the
\* command exited non-zero, and the error is the one of SetupPodRouting.
C10_OnlyInstallFails ==
    \A p \in Profiles :
        ( /\ Returning(p)
          /\ cur[p].op = "SetupPodRoutingForProfile" )
        => /\ cur[p].ret \in {"nil", "RouteInstallFailed"}
           /\ cur[p].ret = "RouteInstallFailed"
              <=> \E i \in 1..Len(cur[p].cmds) :
                     cur[p].cmds[i].cmd = "add" /\ ~cur[p].cmds[i].ok

C10_Witness ==
    \E p \in Profiles :
        /\ Returning(p)
        /\ cur[p].op = "SetupPodRoutingForProfile"
        /\ cur[p].ret = "RouteInstallFailed"
        /\ \E i \in 1..Len(cur[p].cmds) :
              cur[p].cmds[i].cmd = "add" /\ cur[p].cmds[i].fault

\* C11: feature gating. With the cluster feature disabled,
\* SetupPodRoutingForProfile and CleanupPodRoutingForProfile issue no
\* external operation at all and return success; so does
\* SetupPodRoutingForProfile with host-reachable addressing disabled.
C11_Gated(c) ==
    \/ c.op = "SetupPodRoutingForProfile" /\ (~c.k8s \/ ~c.addr)
    \/ c.op = "CleanupPodRoutingForProfile" /\ ~c.k8s

C11_FeatureGating ==
    \A p \in Profiles :
        C11_Gated(cur[p]) =>
            /\ cur[p].cmds = <<>>
            /\ routes = cur[p].routes0
            /\ Returning(p)
            /\ cur[p].ret = "nil"

C11_Witness ==
    \E p \in Profiles :
        /\ Returning(p)
        /\ macOS
        /\ cur[p].op = "SetupPodRoutingForProfile"
        /\ cur[p].k8s
        /\ ~cur[p].addr
        /\ cur[p].cmds = <<>>
        /\ cur[p].ret = "nil"

\* the answer of guest.Running(ctx) in the call c
RunningAnswer(c, b) ==
    \E i \in 1..Len(c.cmds) : c.cmds[i].cmd = "Running" /\ c.cmds[i].ok = b

\* C12 as claimed: GetPodCIDR has no failure visible to its callers. Whenever
\* it has returned, it returned a valid CIDR and no error, the VM running or
\* not.
C12_NeverFails ==
    \A p \in Profiles :
        cur[p].cidrErr # "none" =>
            /\ cur[p].cidrErr = "nil"
            /\ ParseCIDR(cur[p].podCIDR)

\* C12 as amended: GetPodCIDR returns a valid CIDR and no error exactly when
\* the VM is running, whatever the two guest queries give; when the VM is
\* not running it returns the error VMNotRunning without any guest query.
C12_FailsOnlyWhenStopped ==
    \A p \in Profiles :
        cur[p].cidrErr # "none" =>
            /\ cur[p].cidrErr = "nil" <=> RunningAnswer(cur[p], TRUE)
            /\ cur[p].cidrErr = "nil" => ParseCIDR(cur[p].podCIDR)
            /\ cur[p].cidrErr # "nil" =>
                  /\ cur[p].cidrErr = "VMNotRunning"
                  /\ RunningAnswer(cur[p], FALSE)
                  /\ Issued(cur[p], "dump") = <<>>
                  /\ Issued(cur[p], "configmap") = <<>>

C12_Witness ==
    \E p \in Profiles :
        /\ cur[p].cidrErr = "nil"
        /\ cur[p].podCIDR = DefaultPodCIDR
        /\ \E i \in 1..Len(cur[p].cmds) :
              cur[p].cmds[i].cmd = "dump" /\ ~cur[p].cmds[i].ok
        /\ \E i \in 1..Len(cur[p].cmds) :
              cur[p].cmds[i].cmd = "configmap" /\ ~cur[p].cmds[i].ok

\* method 1 gave nothing in the call c: the query failed or its scan found
\* no value that parses
DumpGaveNothing(c) ==
    \E i \in 1..Len(c.cmds) :
        /\ c.cmds[i].cmd = "dump"
        /\ ~c.cmds[i].ok \/ ClusterInfoCIDR(c.cmds[i].out) = NoCIDR

\* method 2 gave nothing in the call c
ConfigmapGaveNothing(c) ==
    \E i \in 1..Len(c.cmds) :
        /\ c.cmds[i].cmd = "configmap"
        /\ ~c.cmds[i].ok \/ FlannelCIDR(c.cmds[i].out) = NoCIDR

\* C13: the default fallback. When the VM is running and neither method
\* gives a parsable CIDR, GetPodCIDR returns exactly 10.42.0.0/16 with
\* success; and every other value it returns parses as a CIDR.
C13_DefaultFallback ==
    \A p \in Profiles :
        cur[p].cidrErr = "nil" =>
            /\ \/ cur[p].podCIDR = DefaultPodCIDR
               \/ ~(ConfigmapGaveNothing(cur[p]) /\ DumpGaveNothing(cur[p]))
            /\ cur[p].podCIDR # DefaultPodCIDR => ParseCIDR(cur[p].podCIDR)

C13_Witness ==
    \E p \in Profiles :
        /\ cur[p].cidrErr = "nil"
        /\ RunningAnswer(cur[p], TRUE)
        /\ \E i \in 1..Len(cur[p].cmds) :
              cur[p].cmds[i].cmd = "dump" /\ cur[p].cmds[i].out = DumpPlain
        /\ \E i \in 1..Len(cur[p].cmds) :
              /\ cur[p].cmds[i].cmd = "configmap"
              /\ cur[p].cmds[i].out = ConfigmapPlain
        /\ cur[p].podCIDR = DefaultPodCIDR

\* C14: cleanup with the VM already stopped. CleanupPodRoutingForProfile
\* with the cluster feature enabled and the VM not running issues no guest
\* query, goes on with the default CIDR and returns success; on macOS it
\* reaches the route lookup, and the lookup and the delete command are for
\* 10.42.0.0/16, whether the delete succeeds or fails.
C14_Stopped(p) ==
    /\ Returning(p)
    /\ cur[p].op = "CleanupPodRoutingForProfile"
    /\ cur[p].k8s
    /\ RunningAnswer(cur[p], FALSE)

C14_CleanupWhenStopped ==
    \A p \in Profiles :
        C14_Stopped(p) =>
            /\ Issued(cur[p], "dump") = <<>>
            /\ Issued(cur[p], "configmap") = <<>>
            /\ cur[p].podCIDR = DefaultPodCIDR
            /\ cur[p].ret = "nil"
            /\ macOS =>
                  /\ Len(Issued(cur[p], "lookup")) = 1
                  /\ \A i \in 1..Len(cur[p].cmds) :
                        cur[p].cmds[i].cmd \in {"lookup", "delete"}
                        => cur[p].cmds[i].cidr = DefaultPodCIDR
                  /\ cur[p].exists => Len(Issued(cur[p], "delete")) = 1

C14_Witness ==
    \E p \in Profiles :
        /\ C14_Stopped(p)
        /\ macOS
        /\ Issued(cur[p], "delete") =
              <<Cmd("delete", DefaultPodCIDR, Empty, Empty, FALSE, TRUE)>>
        /\ cur[p].ret = "nil"

\* C15: a command on which a call waits after its ctx was cancelled was
\* started with that ctx, so that the cancellation ends the command and the
\* call returns; this holds of the lookup, the add, the delete and both
\* guest queries
C15_CancelHonoured ==
    \A p \in Profiles :
        (cur[p].ctx = "cancelled" /\ Hung(p)) => TakesCtx(CommandAt(pc[p]))


\* C16: calls for two distinct profiles, interleaved step by step, do not
\* disturb each other: the add or delete command of a call for one profile
\* leaves every route to the VM of the other profile as it is, and no add
\* command fails (the table starts empty, so a route to the VM of a profile
\* was installed by a setup of that profile, and nothing but the other
\* profile can make an add fail)
C16_Isolated ==
    [][\A p \in Profiles :
          (pc[p] \in {"add", "delete"} /\ pc'[p] = "return") =>
              /\ \A c \in CIDRs :
                    routes[c] \notin {NoRoute, VMAddrOf(p)} =>
                        routes'[c] = routes[c]
              /\ cur'[p].ret = "nil"]_vars


\* the call c ran the guest query name and got the text out
GotOutput(c, name, out) ==
    \E i \in 1..Len(c.cmds) :
        c.cmds[i].cmd = name /\ c.cmds[i].ok /\ c.cmds[i].out = out

\* C17: CIDR extraction is exact. When the cluster-info dump holds a valid
\* CIDR after "cluster-cidr=", or the configmap holds one as the value of
\* its Network key, quoted or not and whatever follows it (a comma, a
\* space, further flags), discovery returns exactly that CIDR.
C17_ExactExtraction ==
    \A p \in Profiles :
        cur[p].cidrErr = "nil" =>
            /\ \A k \in DumpCases :
                  (k.cidr # NoCIDR /\ GotOutput(cur[p], "dump", k.out))
                      => cur[p].podCIDR = k.cidr
            /\ \A k \in ConfigmapCases :
                  (k.cidr # NoCIDR /\ GotOutput(cur[p], "configmap", k.out))
                      => cur[p].podCIDR = k.cidr


\* the i-th external operation of the call c is the guest query name
IsQuery(c, i, name) == c.cmds[i].cmd = name

\* the cluster-info dump of the i-th operation of c holds no valid
\* cluster-cidr value (or the query failed)
DumpHoldsNothing(c, i) ==
    /\ IsQuery(c, i, "dump")
    /\ \/ ~c.cmds[i].ok
       \/ \A k \in DumpCases : k.out = c.cmds[i].out => k.cidr = NoCIDR

\* C18: the ordered fallback chain. The running check precedes every guest
\* query; when the cluster-info dump holds a valid cluster-cidr value,
\* GetPodCIDR returns the first one in line order and the configmap query
\* is not issued; method 2 runs only after method 1 found nothing in a dump
\* that holds nothing; the default is returned only after both queries.
C18_OrderedChain ==
    \A p \in Profiles :
        LET c == cur[p]
        IN  /\ \A i \in 1..Len(c.cmds) :
                  (IsQuery(c, i, "dump") \/ IsQuery(c, i, "configmap")) =>
                      \E j \in 1..(i - 1) :
                          IsQuery(c, j, "Running") /\ c.cmds[j].ok
            /\ \A i \in 1..Len(c.cmds) :
                  IsQuery(c, i, "configmap") =>
                      \E j \in 1..(i - 1) : DumpHoldsNothing(c, j)
            /\ \A k \in DumpCases :
                  (k.cidr # NoCIDR /\ GotOutput(c, "dump", k.out)) =>
                      /\ Issued(c, "configmap") = <<>>
                      /\ c.cidrErr = "nil" => c.podCIDR = k.cidr
            /\ ( /\ c.cidrErr = "nil"
                 /\ Issued(c, "dump") # <<>>
                 /\ c.podCIDR = DefaultPodCIDR )
                    => Issued(c, "configmap") # <<>>


\* what the VM-control collaborator answered in the call c
LimaAnswers(c) == {c.cmds[i].gw : i \in {j \in 1..Len(c.cmds) : c.cmds[j].cmd = "IPAddress"}}

\* C19: VM address validation. GetVMIP returns an address only when the
\* answer of the VM-control collaborator is a non-empty, valid, non-loopback
\* IPv4 address; an empty or loopback answer gives AddressUnavailable, an
\* unparsable one InvalidAddress, another platform PlatformUnsupported; so
\* the address of every add command is a valid non-loopback IPv4 address.
C19_ValidVMAddress ==
    \A p \in Profiles :
        LET c == cur[p]
        IN  (c.op = "SetupPodRoutingForProfile" /\ c.vmErr # "none") =>
                /\ c.vmErr = "nil" =>
                      /\ c.vmIP # Empty
                      /\ IsIPv4(c.vmIP)
                      /\ ~IsLoopback(c.vmIP)
                      /\ LimaAnswers(c) = {c.vmIP}
                /\ ~macOS => c.vmErr = "PlatformUnsupported"
                /\ \A a \in LimaAnswers(c) :
                      /\ (a = Empty \/ IsLoopback(a))
                            => c.vmErr = "AddressUnavailable"
                      /\ (a # Empty /\ ~ParseIP(a)) => c.vmErr = "InvalidAddress"
                /\ \A i \in 1..Len(c.cmds) :
                      c.cmds[i].cmd = "add" =>
                          IsIPv4(c.cmds[i].gw) /\ ~IsLoopback(c.cmds[i].gw)


\* the i-th external operation of the call c is a privileged route command
Privileged(c, i) == c.cmds[i].cmd \in {"add", "delete"}

\* C20: the mutation discipline. In every orchestrator call a privileged
\* route command comes right after a lookup of the same CIDR made in the
\* same call, at most one privileged command is issued, the setup issues no
\* delete and the cleanup no add.
C20_MutationDiscipline ==
    \A p \in Profiles :
        LET c == cur[p]
        IN  c.op \in ProfileOps =>
                /\ \A i \in 1..Len(c.cmds) :
                      Privileged(c, i) =>
                          /\ i > 1
                          /\ c.cmds[i - 1].cmd = "lookup"
                          /\ c.cmds[i - 1].cidr = c.cmds[i].cidr
                /\ Len(Issued(c, "add")) + Len(Issued(c, "delete")) <= 1
                /\ Len(Issued(c, "lookup")) <= 1
                /\ c.op = "SetupPodRoutingForProfile"
                      => Issued(c, "delete") = <<>>
                /\ c.op = "CleanupPodRoutingForProfile"
                      => Issued(c, "add") = <<>>

\* a cleanup that deleted the route after its own lookup, right after a
\* setup that added it
C20_Witness ==
    \E p \in Profiles :
        /\ Returning(p)
        /\ cur[p].op = "CleanupPodRoutingForProfile"
        /\ Len(Issued(cur[p], "lookup")) = 1
        /\ Len(Issued(cur[p], "delete")) = 1
        /\ prev.op = "SetupPodRoutingForProfile"
        /\ Len(prev.adds) = 1

=============================================================================
